---- MODULE Spec2Model ----
(***************************************************************************)
(* Model of context_windows_lab: Summarizer.summarize, the three context   *)
(* strategies of ContextStrategiesExperiment._execute_queries (with        *)
(* Scratchpad and VectorStore), the template method BaseExperiment.run,    *)
(* OllamaInterface.query, AccuracyEvaluator, the query and evaluation      *)
(* hooks of the experiments, DocumentGenerator, VectorStore, Scratchpad    *)
(* and NeedleInHaystackExperiment.                                         *)
(*                                                                         *)
(* The module holds one specification per component, over disjoint groups  *)
(* of variables; each one leaves the other groups at their idle values.    *)
(***************************************************************************)
EXTENDS Integers, Sequences, FiniteSets, TLC

VARIABLES
    \* ---- Summarizer (context_management/summarizer.py)
    max_words,      \* Summarizer.max_words
    text,           \* words of the text of the latest summarize() call
    method,         \* method of the latest summarize() call
    summary,        \* words of the string the latest call returned
    \* ---- ContextStrategiesExperiment (experiments/exp4_context_strategies.py)
    num_documents,      \* self.num_documents
    num_steps,          \* self.num_steps (one fact, question, answer per step)
    top_k,              \* self.top_k
    max_summary_words,  \* self.max_summary_words
    dup_policy,         \* what collection.add does with an id already stored
    client_shared,      \* whether chromadb.Client() hands out one shared store
    iteration,          \* number of _execute_queries calls on this instance
    vector_stores,      \* self.vector_stores: strategy -> collection (id -> doc)
    scratchpad,         \* self.scratchpads["WRITE"]: [memory, history]
    step_idx,           \* loop variable of _execute_queries
    spc,                \* position inside _execute_queries
    context,            \* context built last, per strategy
    responses,          \* number of responses appended, per strategy
    first_index,        \* index contents seen by the first retrieval, per store
    data_arg,           \* the list `data` the call of _execute_queries was given
    \* ---- BaseExperiment (experiments/base_experiment.py)
    kind,           \* the concrete experiment class
    config,         \* self.config (ExperimentConfig)
    results,        \* self.results of the driver's experiment object
    pc,             \* position of the driver inside run()
    ret,            \* the ExperimentResults run() returned
    raised,         \* the stage whose exception left the driver's happy path
    chunksize,      \* iterations per task of pool.map
    copies,         \* self.results of each task's unpickled experiment copy
    done,           \* per iteration: what _run_single_iteration returned
    reference,      \* row count of the sequential reference run, if any
    earlier,        \* row counts the earlier run() calls on this instance returned
    stages,         \* the stages the driver has entered during this run(), in order
    \* ---- OllamaInterface (llm/ollama_interface.py)
    max_retries,    \* self.max_retries
    timeout,        \* self.timeout, in seconds
    question_ok,    \* whether the question passes _validate_inputs
    qpc,            \* position inside query()
    attempt,        \* loop variable of query()
    calls,          \* ollama.generate calls made by this query()
    slept,          \* the time.sleep durations of this query(), in order
    waited,         \* seconds the ollama.generate call in flight has taken
    response,       \* the LLMResponse query() returned
    \* ---- AccuracyEvaluator (evaluation/accuracy_evaluator.py)
    eval_method,    \* self.method
    case_sensitive, \* self.case_sensitive
    eval_response,  \* response argument of the latest evaluate() call
    eval_expected,  \* expected argument of the latest evaluate() call
    score,          \* the score the latest evaluate() call returned
    \* ---- the _execute_queries / _evaluate_responses hooks (experiments/exp*.py)
    experiment,     \* the experiment class whose hooks run
    expected_answer,\* self.expected_answer (self.expected_answers[step_idx])
    llm_responses,  \* the LLMResponses _execute_queries collected, in order
    hook_rows,      \* the rows _evaluate_responses returned
    hpc,            \* position inside the two hooks
    \* ---- DocumentGenerator (data_generation/document_generator.py)
    gen_seed,           \* seed argument of each generator's constructor
    gen_calls,          \* generate_documents calls made so far, per generator
    gen_rng,            \* state of self._rng, per generator
    gen_num_docs,       \* num_docs argument of generate_documents
    gen_words_per_doc,  \* words_per_doc argument of generate_documents
    gen_fact,           \* fact.split() of the fact argument
    gen_position,       \* fact_position argument of generate_documents
    gen_documents,      \* what generate_documents returned, per generator
    \* ---- VectorStore (rag/vector_store.py)
    vs_policy,      \* what collection.add does with an id already stored
    vs_collection,  \* self.collection (id -> document)
    vs_added,       \* documents passed to add_documents since creation or clear
    vs_calls,       \* add_documents and clear calls made so far
    vs_last,        \* how the latest call ended
    \* ---- Scratchpad on its own (context_management/scratchpad.py)
    pad,            \* the Scratchpad: [memory, history]
    pad_before,     \* self.history as it was when the latest operation began
    pad_last,       \* the latest operation: its name, its key, what it returned
    pad_calls,      \* operations made so far
    \* ---- NeedleInHaystackExperiment (experiments/exp1_needle_haystack.py)
    nh_generator,       \* the class the name DocumentGenerator is bound to
    nh_num_documents,   \* num_documents argument of the constructor
    nh_documents,       \* self.documents: the fact_position of each document
    nh_pc,              \* how far construction and run() have got
    nh_ret              \* the ExperimentResults run() returned

summVars == <<max_words, text, method, summary>>
runVars == <<kind, config, results, pc, ret, raised, chunksize, copies, done,
             reference, earlier, stages>>
stratVars == <<num_documents, num_steps, top_k, max_summary_words, dup_policy,
               client_shared, iteration, vector_stores, scratchpad, step_idx,
               spc, context, responses, first_index, data_arg>>

queryVars == <<max_retries, timeout, question_ok, qpc, attempt, calls, slept,
               waited, response>>

\* the state of every component other than the Summarizer, the context
\* strategies and BaseExperiment
evalVars == <<eval_method, case_sensitive, eval_response, eval_expected, score>>

hookVars == <<experiment, expected_answer, llm_responses, hook_rows, hpc>>

genVars == <<gen_seed, gen_calls, gen_rng, gen_num_docs, gen_words_per_doc,
             gen_fact, gen_position, gen_documents>>

\* the state of the library classes checked on their own
storeVars == <<vs_policy, vs_collection, vs_added, vs_calls, vs_last>>

padVars == <<pad, pad_before, pad_last, pad_calls>>

needleVars == <<nh_generator, nh_num_documents, nh_documents, nh_pc, nh_ret>>

libVars == <<genVars, storeVars, padVars, needleVars>>

auxVars == <<queryVars, evalVars, hookVars, libVars>>

\* every group but libVars
coreVars == <<summVars, stratVars, runVars, queryVars, evalVars, hookVars>>

-----------------------------------------------------------------------------
(* Bounds of the model *)

MaxTextLen == 6         \* longest input text, in words
MaxSummaryWords == 4    \* largest max_words
MaxDocs == 2            \* largest num_documents
MaxSteps == 2           \* largest num_steps
MaxTopK == 2            \* largest top_k
WordsPerDoc == 2        \* words of a generated document
MaxCalls == 2           \* _execute_queries calls on one experiment instance
MaxIterations == 5      \* largest config.iterations
MaxWorkers == 1         \* largest config.max_workers
MaxRuns == 2            \* run() calls on one experiment instance
MaxRetries == 3         \* largest max_retries of an OllamaInterface
MaxTimeout == 2         \* largest timeout of an OllamaInterface, in seconds
MaxWait == 3            \* longest an ollama.generate call is followed, in seconds
MaxChars == 3           \* longest string handed to the evaluator, in characters
MaxAnswerChars == 1     \* longest expected answer and LLM answer of a hook, in characters
NumTemplates == 2       \* templates of a DocumentGenerator
MaxSeed == 2            \* largest seed of a DocumentGenerator
NumEntropy == 2         \* states an unseeded random.Random() may start in
MaxGenCalls == 2        \* generate_documents calls on one DocumentGenerator
MaxGenDocs == 2         \* largest num_docs of generate_documents
MaxStoreCalls == 4      \* add_documents and clear calls on one VectorStore
MaxKeys == 2            \* keys of a Scratchpad used on its own
MaxValues == 1          \* non-empty values written to such a Scratchpad
MaxPadCalls == 3        \* write, read and clear calls on such a Scratchpad
MaxNeedleDocs == 4      \* largest num_documents of a NeedleInHaystackExperiment
MaxExtraWords == 0      \* largest words_per_doc above the minimum of 100
NumQueries == 2         \* llm.query calls of one _execute_queries call
NumCounts == 1          \* len(document_counts) of a ContextSizeExperiment

-----------------------------------------------------------------------------
(* Python helpers *)

Min(a, b) == IF a < b THEN a ELSE b
Max(a, b) == IF a > b THEN a ELSE b

\* Python's s[start:] and s[:stop] on a list, with negative indices counted
\* from the end and out-of-range indices clamped.
PyIndex(i, n) == IF i < 0 THEN Max(n + i, 0) ELSE Min(i, n)
PySliceTo(s, stop) == SubSeq(s, 1, PyIndex(stop, Len(s)))
PySliceFrom(s, start) == SubSeq(s, PyIndex(start, Len(s)) + 1, Len(s))
PySlice(s, start, stop) == SubSeq(s, PyIndex(start, Len(s)) + 1, PyIndex(stop, Len(s)))

-----------------------------------------------------------------------------
(* Summarizer.summarize                                                    *)
(* A text is modelled by text.split(), a sequence of word tokens           *)
(* [k |-> "word", w |-> i]. The returned string is modelled by its split:  *)
(* "[...]" is a token of its own, and the "..." that truncate glues to the *)
(* last kept word turns that word into a "word..." token.                  *)

Word(i) == [k |-> "word", w |-> i]
Ellipsis == [k |-> "[...]", w |-> 0]
Dots == [k |-> "...", w |-> 0]

\* split() of (" ".join(ws) + "...")
JoinDots(ws) ==
    IF Len(ws) = 0 THEN <<Dots>>
    ELSE SubSeq(ws, 1, Len(ws) - 1)
         \o <<[k |-> "word...", w |-> ws[Len(ws)].w]>>

Methods == {"truncate", "first_last", "middle", "other"}

SummarizeTruncate(words, mw) == JoinDots(PySliceTo(words, mw))

SummarizeFirstLast(words, mw) ==
    LET half == mw \div 2
        first_part == PySliceTo(words, half)
        last_part == PySliceFrom(words, 0 - half)
    IN first_part \o <<Ellipsis>> \o last_part

SummarizeMiddle(words, mw) ==
    LET start_idx == (Len(words) - mw) \div 2
        end_idx == start_idx + mw
    IN <<Ellipsis>> \o PySlice(words, start_idx, end_idx) \o <<Ellipsis>>

Summarize(words, mw, m) ==
    IF Len(words) <= mw THEN words
    ELSE CASE m = "truncate" -> SummarizeTruncate(words, mw)
           [] m = "first_last" -> SummarizeFirstLast(words, mw)
           [] m = "middle" -> SummarizeMiddle(words, mw)
           [] OTHER -> SummarizeTruncate(words, mw)

Texts == {[i \in 1..n |-> Word(i)] : n \in 0..MaxTextLen}

SummInit ==
    /\ max_words \in 1..MaxSummaryWords
    /\ text = <<>>
    /\ method = "truncate"
    /\ summary = <<>>

SummIdle ==
    /\ max_words = 0
    /\ text = <<>>
    /\ method = "truncate"
    /\ summary = <<>>

SummarizeCall(t, m) ==
    /\ text' = t
    /\ method' = m
    /\ summary' = Summarize(t, max_words, m)
    /\ UNCHANGED <<max_words, stratVars, runVars, auxVars>>


-----------------------------------------------------------------------------
(* Scratchpad                                                              *)
(* memory is a Python dict: a sequence of [key, value] entries in          *)
(* insertion order, keys unique. A history entry carries the number of the *)
(* _execute_queries call during which it was appended.                     *)

None_ == 0      \* Python's None (facts and keys are numbered from 1)

Scratchpad == [memory |-> <<>>, history |-> <<>>]

HasKey(memory, key) == \E i \in 1..Len(memory) : memory[i].key = key

DictSet(memory, key, value) ==
    IF HasKey(memory, key)
    THEN [i \in 1..Len(memory) |->
            IF memory[i].key = key THEN [key |-> key, value |-> value]
            ELSE memory[i]]
    ELSE Append(memory, [key |-> key, value |-> value])

DictGet(memory, key) ==
    IF HasKey(memory, key)
    THEN (CHOOSE e \in {memory[i] : i \in 1..Len(memory)} : e.key = key).value
    ELSE None_

ScratchpadWrite(sp, key, value, call) ==
    [memory |-> DictSet(sp.memory, key, value),
     history |-> Append(sp.history,
                        [op |-> "WRITE", key |-> key, value |-> value, call |-> call])]

\* the value read() returns
ScratchpadRead(sp, key) == DictGet(sp.memory, key)

\* get_summary(), line by line: "Scratchpad is empty." for an empty memory,
\* else "Scratchpad Memory:" and one "  - key: value" line per entry
SummaryLine(e) == [line |-> "entry", key |-> e.key, value |-> e.value]

ScratchpadSummary(sp) ==
    IF Len(sp.memory) = 0
    THEN <<[line |-> "empty", key |-> None_, value |-> None_]>>
    ELSE <<[line |-> "header", key |-> None_, value |-> None_]>>
         \o [i \in 1..Len(sp.memory) |-> SummaryLine(sp.memory[i])]

-----------------------------------------------------------------------------
(* VectorStore over a chromadb collection                                  *)
(* A collection is a function from ids (the i of "doc_i") to documents.    *)
(* A document is [call, idx, fact]: the idx-th document generated for the  *)
(* call-th iteration, with fact appended to it (None_ for none).           *)

EmptyCollection == [i \in {} |-> None_]

Range(f) == {f[x] : x \in DOMAIN f}

\* add_documents(documents): ids are doc_0 .. doc_{n-1} on every call.
\* chromadb either skips an id it already stores or raises on it.
AddDocumentsUpsert(coll, documents, policy) ==
    LET ids == 0..(Len(documents) - 1)
    IN [raised |-> FALSE,
        coll |-> [i \in DOMAIN coll \cup ids |->
                    IF i \in ids THEN documents[i + 1] ELSE coll[i]]]
AddDocuments(coll, documents, policy) ==
    LET ids == 0..(Len(documents) - 1)
        dup == ids \cap DOMAIN coll
    IN IF Len(documents) = 0 THEN [raised |-> FALSE, coll |-> coll]
       ELSE IF dup # {} /\ policy = "raise" THEN [raised |-> TRUE, coll |-> coll]
       ELSE [raised |-> FALSE,
             coll |-> [i \in DOMAIN coll \cup ids |->
                         IF i \in DOMAIN coll THEN coll[i] ELSE documents[i + 1]]]

\* retrieve(query, top_k): the n_results nearest documents; which ones is up
\* to the embedding. The result is modelled as a set of documents.
RetrieveTopK(coll, k) ==
    {{coll[i] : i \in S} :
        S \in {T \in SUBSET DOMAIN coll :
                 Cardinality(T) = Min(k, Cardinality(DOMAIN coll))}}

\* VectorStore(collection_name): get_collection if the client knows the name,
\* else create_collection. The name is f"exp4_{strategy}_{id(self)}", so a
\* shared client knows it iff this instance built a store for the strategy.
VectorStoreInit(stores, strategy, shared) ==
    IF shared /\ strategy \in DOMAIN stores THEN stores[strategy]
    ELSE EmptyCollection

SetStore(stores, strategy, coll) ==
    [s \in DOMAIN stores \cup {strategy} |->
        IF s = strategy THEN coll ELSE stores[s]]

-----------------------------------------------------------------------------
(* ContextStrategiesExperiment._execute_queries                            *)

Strategies == <<"SELECT", "COMPRESS", "WRITE">>

\* self.facts: one fact per step, pairwise distinct (as the defaults are)
Fact(i) == i + 1

\* the documents _generate_data returns for the call-th iteration; a new
\* unseeded DocumentGenerator draws them, so no two iterations share one
Document(call, idx, fact) == [call |-> call, idx |-> idx, fact |-> fact]
GenerateData(call, n) == [i \in 1..n |-> Document(call, i - 1, None_)]

\* step_data[fact_doc_idx]: the step's document with its fact appended
FactDocIdx(i, data) == i % Len(data)
StepDocument(i, data) ==
    Document(data[FactDocIdx(i, data) + 1].call, FactDocIdx(i, data), Fact(i))
StepData(i, data) ==
    [j \in 1..Len(data) |->
        IF j = FactDocIdx(i, data) + 1 THEN StepDocument(i, data) ELSE data[j]]

\* doc.content.split(): WordsPerDoc filler words, then the fact if any
DocWords(d) ==
    [j \in 1..WordsPerDoc |-> Word((d.call * MaxDocs + d.idx) * WordsPerDoc + j)]
    \o (IF d.fact = None_ THEN <<>> ELSE <<[k |-> "fact", w |-> d.fact]>>)

RECURSIVE JoinDocs(_)
JoinDocs(docs) ==
    IF Len(docs) = 0 THEN <<>> ELSE DocWords(Head(docs)) \o JoinDocs(Tail(docs))

FactKeyConst(i) == 1
FactKey(i) == i + 1     \* f"step_{step_idx + 1}"

NoContext == [SELECT |-> {}, COMPRESS |-> <<>>,
              WRITE |-> [summary |-> <<>>, docs |-> {}]]
NoResponses == [SELECT |-> 0, COMPRESS |-> 0, WRITE |-> 0]
NoRetrieval == [SELECT |-> [seen |-> FALSE, docs |-> {}],
                WRITE |-> [seen |-> FALSE, docs |-> {}]]

\* the context SELECT hands to the LLM: the retrieved documents only
SelectContextAll(retrieved, step_data) == Range(step_data)
SelectContext(retrieved, step_data) == retrieved

\* the scratchpad the WRITE strategy starts an iteration with
KeepScratchpad(old) == old
NewScratchpad(old) == Scratchpad

\* the list the call was given, as the call reads it
Data == data_arg

\* line 211: step_data = data.copy(), so replacing step_data[fact_doc_idx]
\* leaves the list the call was given as it was
DataAfterStepInPlace(i, data) == StepData(i, data)
DataAfterStep(i, data) == data

FirstSeen(s, coll) ==
    IF first_index[s].seen THEN first_index
    ELSE [first_index EXCEPT ![s] = [seen |-> TRUE, docs |-> Range(coll)]]

StratInit ==
    /\ num_documents \in 1..MaxDocs
    /\ num_steps \in 1..MaxSteps
    /\ top_k \in 1..MaxTopK
    /\ max_summary_words \in 1..MaxSummaryWords
    /\ dup_policy \in {"ignore", "raise"}
    /\ client_shared \in BOOLEAN
    /\ iteration = 0
    /\ vector_stores = [s \in {} |-> EmptyCollection]
    /\ scratchpad = Scratchpad
    /\ step_idx = 0
    /\ spc = "idle"
    /\ context = NoContext
    /\ responses = NoResponses
    /\ first_index = NoRetrieval
    /\ data_arg = <<>>

StratIdle ==
    /\ num_documents = 0
    /\ num_steps = 0
    /\ top_k = 0
    /\ max_summary_words = 0
    /\ dup_policy = "ignore"
    /\ client_shared = FALSE
    /\ iteration = 0
    /\ vector_stores = [s \in {} |-> EmptyCollection]
    /\ scratchpad = Scratchpad
    /\ step_idx = 0
    /\ spc = "idle"
    /\ context = NoContext
    /\ responses = NoResponses
    /\ first_index = NoRetrieval
    /\ data_arg = <<>>

stratParams == <<num_documents, num_steps, top_k, max_summary_words,
                 dup_policy, client_shared>>

\* lines 187-202: a call of _execute_queries with freshly generated data
\* builds the SELECT store, the Summarizer and the Scratchpad, in this order
BeginExecuteQueries ==
    /\ spc \in {"idle", "returned", "raised"}
    /\ iteration < MaxCalls
    /\ iteration' = iteration + 1
    /\ LET data == GenerateData(iteration + 1, num_documents)
           store == VectorStoreInit(vector_stores, "SELECT", client_shared)
           added == AddDocuments(store, data, dup_policy)
       IN /\ vector_stores' = SetStore(vector_stores, "SELECT", added.coll)
          /\ IF added.raised
             THEN /\ spc' = "raised"
                  /\ UNCHANGED <<max_words, scratchpad>>
             ELSE /\ spc' = "SELECT"
                  /\ max_words' = max_summary_words
                  /\ scratchpad' = NewScratchpad(scratchpad)
    /\ data_arg' = GenerateData(iteration + 1, num_documents)
    /\ step_idx' = 0
    /\ context' = NoContext
    /\ responses' = NoResponses
    /\ first_index' = NoRetrieval
    /\ UNCHANGED <<stratParams, text, method, summary, runVars, auxVars>>

\* lines 222-233, 270-272: retrieve, build the context, index the step's
\* document, query the LLM
StepSelect ==
    /\ spc = "SELECT"
    /\ \E retrieved \in RetrieveTopK(vector_stores["SELECT"], top_k) :
         LET added == AddDocuments(vector_stores["SELECT"],
                                   <<StepDocument(step_idx, Data)>>, dup_policy)
         IN /\ first_index' = FirstSeen("SELECT", vector_stores["SELECT"])
            /\ context' = [context EXCEPT
                              !.SELECT = SelectContext(retrieved, StepData(step_idx, Data))]
            /\ vector_stores' = SetStore(vector_stores, "SELECT", added.coll)
            /\ IF added.raised
               THEN spc' = "raised" /\ UNCHANGED responses
               ELSE /\ spc' = "COMPRESS"
                    /\ responses' = [responses EXCEPT !.SELECT = @ + 1]
    /\ data_arg' = DataAfterStep(step_idx, data_arg)
    /\ UNCHANGED <<stratParams, iteration, scratchpad, step_idx, summVars, runVars, auxVars>>

\* lines 235-240, 270-272: summarize the step's documents, query the LLM
StepCompress ==
    /\ spc = "COMPRESS"
    /\ LET full_context == JoinDocs(StepData(step_idx, Data))
       IN /\ text' = full_context
          /\ method' = "first_last"
          /\ summary' = Summarize(full_context, max_words, "first_last")
          /\ context' = [context EXCEPT
                            !.COMPRESS = Summarize(full_context, max_words, "first_last")]
    /\ responses' = [responses EXCEPT !.COMPRESS = @ + 1]
    /\ spc' = "WRITE"
    /\ UNCHANGED <<stratParams, iteration, vector_stores, scratchpad, step_idx,
                   first_index, data_arg, max_words, runVars, auxVars>>

\* lines 242-272: write the fact, build the context from the scratchpad
\* summary and the retrieved documents, index the step's document, query
StepWrite ==
    /\ spc = "WRITE"
    /\ LET written == ScratchpadWrite(scratchpad, FactKey(step_idx),
                                      Fact(step_idx), iteration)
           built == IF "WRITE" \in DOMAIN vector_stores
                    THEN [raised |-> FALSE, coll |-> vector_stores["WRITE"]]
                    ELSE AddDocuments(
                             VectorStoreInit(vector_stores, "WRITE", client_shared),
                             Data, dup_policy)
       IN /\ scratchpad' = written
          /\ IF built.raised
             THEN /\ vector_stores' = SetStore(vector_stores, "WRITE", built.coll)
                  /\ spc' = "raised"
                  /\ UNCHANGED <<context, responses, step_idx, first_index>>
             ELSE \E retrieved \in RetrieveTopK(built.coll, top_k) :
                    LET added == AddDocuments(built.coll,
                                     <<StepDocument(step_idx, Data)>>, dup_policy)
                    IN /\ first_index' = FirstSeen("WRITE", built.coll)
                       /\ context' = [context EXCEPT
                                !.WRITE = [summary |-> ScratchpadSummary(written),
                                           docs |-> retrieved]]
                       /\ vector_stores' = SetStore(vector_stores, "WRITE", added.coll)
                       /\ IF added.raised
                          THEN spc' = "raised" /\ UNCHANGED <<responses, step_idx>>
                          ELSE /\ responses' = [responses EXCEPT !.WRITE = @ + 1]
                               /\ step_idx' = step_idx + 1
                               /\ spc' = IF step_idx + 1 < num_steps
                                         THEN "SELECT" ELSE "returned"
    /\ UNCHANGED <<stratParams, iteration, data_arg, summVars, runVars, auxVars>>

\* lines 192-196, 224-226, 252-259: a VectorStore call (the constructor,
\* add_documents or retrieve) raises for a reason of its own; nothing in
\* _execute_queries catches it
VectorStoreFails ==
    /\ \/ /\ spc \in {"idle", "returned", "raised"}
          /\ iteration < MaxCalls
          /\ iteration' = iteration + 1
          /\ step_idx' = 0
          /\ context' = NoContext
          /\ responses' = NoResponses
          /\ first_index' = NoRetrieval
          /\ data_arg' = GenerateData(iteration + 1, num_documents)
          /\ UNCHANGED scratchpad
       \/ /\ spc = "SELECT"
          /\ UNCHANGED <<iteration, step_idx, context, responses, first_index,
                         scratchpad, data_arg>>
       \/ /\ spc = "WRITE"
          /\ scratchpad' = ScratchpadWrite(scratchpad, FactKey(step_idx),
                                           Fact(step_idx), iteration)
          /\ UNCHANGED <<iteration, step_idx, context, responses, first_index,
                         data_arg>>
    /\ spc' = "raised"
    /\ UNCHANGED <<stratParams, vector_stores, summVars, runVars, auxVars>>

-----------------------------------------------------------------------------
(* BaseExperiment.run and its two paths                                    *)
(* A row is [it, q]: the q-th row of the it-th pass through the hooks (a   *)
(* sequential run makes pass 0; a parallel run passes 0 .. iterations-1).  *)

Kinds == {"ContextSize", "ContextStrategies"}

\* rows one pass of _evaluate_responses produces: one per document count,
\* or one per strategy and step (a script of one step)
RowsPerIteration(k) ==
    IF k = "ContextSize" THEN NumCounts ELSE Len(Strategies)

NewRows(k, it) == [q \in 1..RowsPerIteration(k) |-> [it |-> it, q |-> q]]

\* _evaluate_responses up to an exception after `upto` rows (all of them
\* when no exception): ContextSizeExperiment appends to self.results and
\* returns that very list, the others build and return a new list.
EvaluateResponses(k, self_results, it, upto) ==
    LET rows == SubSeq(NewRows(k, it), 1, upto)
    IN IF k = "ContextSize"
       THEN [after |-> self_results \o rows, alias |-> TRUE, returned |-> <<>>]
       ELSE [after |-> self_results, alias |-> FALSE, returned |-> rows]

\* analyze(): the groups that get statistics
Analysis(k, rows) == {rows[n].q : n \in 1..Len(rows)}

\* visualize(): ContextStrategies plots nothing without statistics
Plots(k, rows) ==
    IF k = "ContextStrategies" /\ Len(rows) = 0 THEN {} ELSE {"png"}

NoReturn == [success |-> FALSE, error |-> "none", raw_results |-> <<>>,
             statistics |-> {}, visualization_paths |-> {}]

\* what the generator that draws an iteration's data was seeded with, and
\* how many _generate_data calls it has served since
Seeding(source, seed, drawn) == [source |-> source, seed |-> seed, drawn |-> drawn]
NotSeeded == Seeding("none", None_, 0)

Pending == [status |-> "pending", alias |-> FALSE, rows |-> <<>>,
            seeding |-> NotSeeded]

\* the seed ContextSizeExperiment.__init__ gives its DocumentGenerator
ConstructorSeed == 42

\* _generate_data as iteration `it` of a chunk calls it. ContextSize draws
\* from self.doc_generator, seeded in __init__ and pickled with the chunk's
\* copy of the experiment; ContextStrategies builds DocumentGenerator(),
\* seeded by the operating system, on every call. Neither reads `it`.
DataSeeding(k, it, size, entropy) ==
    IF k = "ContextSize" THEN Seeding("constructor", ConstructorSeed, it % size)
    ELSE Seeding("entropy", entropy, 0)

\* pool.map's default chunksize (multiprocessing.Pool._map_async)
Chunksize(n, workers) ==
    LET q == n \div (workers * 4)
        r == n % (workers * 4)
    IN IF r # 0 THEN q + 1 ELSE q

ChunkOf(it) == it \div chunksize

Parallel == config.iterations > 1 /\ config.use_multiprocessing

RunInit ==
    /\ kind \in Kinds
    /\ config \in [iterations : 1..MaxIterations,
                    use_multiprocessing : BOOLEAN,
                    max_workers : 1..MaxWorkers,
                    save_results : BOOLEAN,
                    generate_visualizations : BOOLEAN]
    /\ results = <<>>
    /\ pc = "init"
    /\ ret = NoReturn
    /\ raised = "none"
    /\ chunksize = 1
    /\ copies = <<>>
    /\ done = <<>>
    /\ reference = None_
    /\ earlier = <<>>
    /\ stages = <<>>

RunIdle ==
    /\ kind = "ContextStrategies"
    /\ config = [iterations |-> 1, use_multiprocessing |-> FALSE, max_workers |-> 1,
                 save_results |-> FALSE, generate_visualizations |-> FALSE]
    /\ results = <<>>
    /\ pc = "init"
    /\ ret = NoReturn
    /\ raised = "none"
    /\ chunksize = 1
    /\ copies = <<>>
    /\ done = <<>>
    /\ reference = None_
    /\ earlier = <<>>
    /\ stages = <<>>

\* lines 139-150: the except clause of run()
ExceptPropagates(stage, self_results) ==
    /\ pc' = "propagated"
    /\ raised' = stage
    /\ results' = self_results
    /\ UNCHANGED ret
Except(stage, self_results) ==
    /\ pc' = "returned"
    /\ raised' = stage
    /\ results' = self_results
    /\ ret' = [success |-> FALSE, error |-> stage, raw_results |-> self_results,
               statistics |-> {}, visualization_paths |-> {}]

\* lines 130-137 and 287-294: the ExperimentResults of a run that got through
Success ==
    [success |-> TRUE, error |-> "none", raw_results |-> results,
     statistics |-> Analysis(kind, results),
     visualization_paths |-> IF config.generate_visualizations
                             THEN Plots(kind, results) ELSE {}]

\* a stage entered by run() itself, or by another stage
Stage(name, within) == [stage |-> name, within |-> within]

\* visualize() of every experiment begins by calling self.analyze()
Visualize == <<Stage("visualize", "run"), Stage("analyze", "visualize")>>

\* lines 91-97 and 241-256: run() picks its path; the parallel path hands
\* pool.map one pickled copy of the experiment per chunk of iterations
Run ==
    /\ pc = "init"
    /\ IF Parallel
       THEN LET size == Chunksize(config.iterations, config.max_workers)
            IN /\ pc' = "pool"
               /\ chunksize' = size
               /\ copies' = [c \in 1..((config.iterations + size - 1) \div size)
                               |-> results]
               /\ done' = [n \in 1..config.iterations |-> Pending]
       ELSE /\ pc' = "generate"
            /\ UNCHANGED <<chunksize, copies, done>>
    /\ stages' = <<>>
    /\ UNCHANGED <<kind, config, results, ret, raised, reference, earlier>>
    /\ UNCHANGED <<summVars, stratVars, auxVars>>

runFrame == <<kind, config, chunksize, copies, done, reference, earlier>>

\* line 100
SeqGenerateData ==
    /\ pc = "generate"
    /\ \/ pc' = "query" /\ UNCHANGED <<results, ret, raised>>
       \/ Except("generate", results)
    /\ stages' = Append(stages, Stage("generate", "run"))
    /\ UNCHANGED <<runFrame, summVars, stratVars, auxVars>>

\* line 104
SeqExecuteQueries ==
    /\ pc = "query"
    /\ \/ pc' = "evaluate" /\ UNCHANGED <<results, ret, raised>>
       \/ Except("query", results)
    /\ stages' = Append(stages, Stage("query", "run"))
    /\ UNCHANGED <<runFrame, summVars, stratVars, auxVars>>

\* lines 108-111: self.results = evaluations
SeqEvaluateResponses ==
    /\ pc = "evaluate"
    /\ \/ LET e == EvaluateResponses(kind, results, 0, RowsPerIteration(kind))
          IN /\ results' = (IF e.alias THEN e.after ELSE e.returned)
             /\ pc' = "analyze"
             /\ UNCHANGED <<ret, raised>>
       \/ \E upto \in 0..(RowsPerIteration(kind) - 1) :
             Except("evaluate", EvaluateResponses(kind, results, 0, upto).after)
    /\ stages' = Append(stages, Stage("evaluate", "run"))
    /\ UNCHANGED <<runFrame, summVars, stratVars, auxVars>>

\* line 115
SeqAnalyze ==
    /\ pc = "analyze"
    /\ \/ pc' = "visualize" /\ UNCHANGED <<results, ret, raised>>
       \/ Except("analyze", results)
    /\ stages' = Append(stages, Stage("analyze", "run"))
    /\ UNCHANGED <<runFrame, summVars, stratVars, auxVars>>

\* lines 118-121
SeqVisualize ==
    /\ pc = "visualize"
    /\ \/ pc' = "save" /\ UNCHANGED <<results, ret, raised>>
       \/ config.generate_visualizations /\ Except("visualize", results)
    /\ stages' = IF config.generate_visualizations THEN stages \o Visualize
                  ELSE stages
    /\ UNCHANGED <<runFrame, summVars, stratVars, auxVars>>

\* lines 124-137
SeqSaveResults ==
    /\ pc = "save"
    /\ \/ pc' = "returned" /\ ret' = Success /\ UNCHANGED <<results, raised>>
       \/ config.save_results /\ Except("save", results)
    /\ stages' = IF config.save_results THEN Append(stages, Stage("save", "run"))
                  ELSE stages
    /\ UNCHANGED <<runFrame, summVars, stratVars, auxVars>>

\* lines 296-326, as one task of pool.map runs them: iteration `it` on the
\* copy of its chunk, after the chunk's earlier iterations
RunSingleIteration(it) ==
    /\ pc = "pool"
    /\ done[it + 1].status = "pending"
    /\ (it % chunksize # 0) => done[it].status # "pending"
    /\ LET c == ChunkOf(it) + 1
       IN \/ \E entropy \in IF kind = "ContextSize" THEN {None_}
                             ELSE 1..NumEntropy :
             LET e == EvaluateResponses(kind, copies[c], it, RowsPerIteration(kind))
             IN /\ copies' = [copies EXCEPT ![c] = e.after]
                /\ done' = [done EXCEPT ![it + 1] =
                              [status |-> "ok", alias |-> e.alias, rows |-> e.returned,
                               seeding |-> DataSeeding(kind, it, chunksize, entropy)]]
          \/ \E stage \in {"generate", "query"} :
                /\ done' = [done EXCEPT ![it + 1] =
                              [status |-> "raised", alias |-> FALSE, rows |-> <<>>,
                               seeding |-> NotSeeded]]
                /\ UNCHANGED copies
          \/ \E upto \in 0..(RowsPerIteration(kind) - 1) :
                /\ copies' = [copies EXCEPT ![c] =
                                EvaluateResponses(kind, copies[c], it, upto).after]
                /\ done' = [done EXCEPT ![it + 1] =
                              [status |-> "raised", alias |-> FALSE, rows |-> <<>>,
                               seeding |-> NotSeeded]]
    /\ UNCHANGED <<kind, config, results, pc, ret, raised, chunksize, reference,
                   earlier, stages>>
    /\ UNCHANGED <<summVars, stratVars, auxVars>>

\* what pool.map hands back for iteration `it`: a returned self.results is
\* the list of the chunk's copy as it is when the chunk is pickled back
IterationResult(it) ==
    IF done[it + 1].alias THEN copies[ChunkOf(it) + 1] ELSE done[it + 1].rows

RECURSIVE Extend(_)
Extend(n) ==
    IF n = 0 THEN <<>> ELSE Extend(n - 1) \o IterationResult(n - 1)

\* lines 258-266
Aggregate ==
    /\ pc = "pool"
    /\ \A n \in 1..Len(done) : done[n].status # "pending"
    /\ results' = Extend(Len(done))
    /\ pc' = "par_analyze"
    /\ UNCHANGED <<kind, config, ret, raised, chunksize, copies, done, reference,
                   earlier, stages>>
    /\ UNCHANGED <<summVars, stratVars, auxVars>>

\* line 269: nothing catches what the parallel path raises from here on
ParAnalyze ==
    /\ pc = "par_analyze"
    /\ \/ pc' = "par_visualize" /\ UNCHANGED raised
       \/ pc' = "propagated" /\ raised' = "analyze"
    /\ stages' = Append(stages, Stage("analyze", "run"))
    /\ UNCHANGED <<results, ret, runFrame, summVars, stratVars, auxVars>>

\* lines 271-275
ParVisualize ==
    /\ pc = "par_visualize"
    /\ \/ pc' = "par_save" /\ UNCHANGED raised
       \/ /\ config.generate_visualizations
          /\ pc' = "propagated" /\ raised' = "visualize"
    /\ stages' = IF config.generate_visualizations THEN stages \o Visualize
                  ELSE stages
    /\ UNCHANGED <<results, ret, runFrame, summVars, stratVars, auxVars>>

\* lines 277-294
ParSaveResults ==
    /\ pc = "par_save"
    /\ \/ pc' = "returned" /\ ret' = Success /\ UNCHANGED raised
       \/ /\ config.save_results
          /\ pc' = "propagated" /\ raised' = "save" /\ UNCHANGED ret
    /\ stages' = IF config.save_results THEN Append(stages, Stage("save", "run"))
                  ELSE stages
    /\ UNCHANGED <<results, runFrame, summVars, stratVars, auxVars>>

\* lines 63-76: after a successful sequential run, a new experiment of the
\* same class and parameters is built with use_multiprocessing switched on
NewParallelExperiment ==
    /\ pc = "returned"
    /\ ret.success
    /\ ~config.use_multiprocessing
    /\ reference = None_
    /\ reference' = Len(ret.raw_results)
    /\ config' = [config EXCEPT !.use_multiprocessing = TRUE]
    /\ results' = <<>>
    /\ pc' = "init"
    /\ ret' = NoReturn
    /\ raised' = "none"
    /\ earlier' = <<>>
    /\ UNCHANGED <<kind, chunksize, copies, done, stages>>
    /\ UNCHANGED <<summVars, stratVars, auxVars>>

\* run() is called again on the experiment whose run() has returned:
\* self.results is what the call before left in it
RunAgain ==
    /\ pc = "returned"
    /\ Len(earlier) + 1 < MaxRuns
    /\ earlier' = Append(earlier, Len(ret.raw_results))
    /\ pc' = "init"
    /\ ret' = NoReturn
    /\ raised' = "none"
    /\ copies' = <<>>
    /\ done' = <<>>
    /\ UNCHANGED <<kind, config, results, chunksize, reference, stages>>
    /\ UNCHANGED <<summVars, stratVars, auxVars>>

-----------------------------------------------------------------------------
(* OllamaInterface.query                                                   *)
(* One ollama.generate call either returns, raises, or is still running    *)
(* after another second. query() hands the call the model, the prompt and  *)
(* the sampling options only.                                              *)

NoLLMResponse == [success |-> FALSE, error |-> "none", attempt |-> None_]

\* lines 157-165 and 171-179: the LLMResponse of a terminal failure
FailedResponse(error, att) == [success |-> FALSE, error |-> error, attempt |-> att]

\* line 155: whether the attempt that failed was the final one
LastAttemptLate(att, retries) == att = retries
LastAttempt(att, retries) == att = retries - 1

\* line 168: time.sleep(2**attempt)
Backoff(att) == 2 ^ att

QueryInit ==
    /\ max_retries \in 0..MaxRetries
    /\ timeout \in 1..MaxTimeout
    /\ question_ok \in BOOLEAN
    /\ qpc = "idle"
    /\ attempt = 0
    /\ calls = 0
    /\ slept = <<>>
    /\ waited = 0
    /\ response = NoLLMResponse

QueryIdle ==
    /\ max_retries = 0
    /\ timeout = 0
    /\ question_ok = FALSE
    /\ qpc = "idle"
    /\ attempt = 0
    /\ calls = 0
    /\ slept = <<>>
    /\ waited = 0
    /\ response = NoLLMResponse

queryParams == <<max_retries, timeout, question_ok>>

\* lines 110-116: _validate_inputs, then the first pass of the retry loop
Query ==
    /\ qpc = "idle"
    /\ IF ~question_ok
       THEN /\ qpc' = "raised"
            /\ UNCHANGED <<attempt, calls, response>>
       ELSE IF max_retries = 0
       THEN /\ qpc' = "returned"
            /\ response' = FailedResponse("Max retries exceeded", None_)
            /\ UNCHANGED <<attempt, calls>>
       ELSE /\ qpc' = "generating"
            /\ attempt' = 0
            /\ calls' = 1
            /\ UNCHANGED response
    /\ UNCHANGED <<queryParams, slept, waited>>
    /\ UNCHANGED <<summVars, stratVars, runVars, evalVars, hookVars, libVars>>

\* lines 121-150: ollama.generate returns and query() returns its text
GenerateReturns ==
    /\ qpc = "generating"
    /\ qpc' = "returned"
    /\ response' = [success |-> TRUE, error |-> "none", attempt |-> attempt]
    /\ UNCHANGED <<queryParams, attempt, calls, slept, waited>>
    /\ UNCHANGED <<summVars, stratVars, runVars, evalVars, hookVars, libVars>>

\* lines 152-168: the call raises; the final attempt returns the failure,
\* any other one sleeps and enters the next pass of the loop
GenerateRaises ==
    /\ qpc = "generating"
    /\ IF LastAttempt(attempt, max_retries)
       THEN /\ qpc' = "returned"
            /\ response' = FailedResponse("exception", attempt)
            /\ UNCHANGED <<attempt, calls, slept, waited>>
       ELSE /\ slept' = Append(slept, Backoff(attempt))
            /\ IF attempt + 1 < max_retries
               THEN /\ attempt' = attempt + 1
                    /\ calls' = calls + 1
                    /\ waited' = 0
                    /\ UNCHANGED <<qpc, response>>
               ELSE /\ qpc' = "returned"
                    /\ response' = FailedResponse("Max retries exceeded", None_)
                    /\ UNCHANGED <<attempt, calls, waited>>
    /\ UNCHANGED queryParams
    /\ UNCHANGED <<summVars, stratVars, runVars, evalVars, hookVars, libVars>>

\* lines 121-128: the call is given no timeout, so while the backend does
\* not answer the call goes on, whatever self.timeout is
GenerateBlocks ==
    /\ qpc = "generating"
    /\ waited < MaxWait
    /\ waited' = waited + 1
    /\ UNCHANGED <<queryParams, qpc, attempt, calls, slept, response>>
    /\ UNCHANGED <<summVars, stratVars, runVars, evalVars, hookVars, libVars>>

-----------------------------------------------------------------------------
(* AccuracyEvaluator                                                       *)
(* A string is a sequence of characters over a four-letter alphabet: a     *)
(* lower-case letter, an upper-case letter, a punctuation mark that        *)
(* _preprocess removes, and a blank. A score is the fraction num / den.    *)

Chars == {"a", "B", ".", " "}
Blank == " "
Punctuation == {"."}

Strings(n) == UNION {[1..k -> Chars] : k \in 0..n}

\* str.split(): the maximal runs of non-blank characters
RECURSIVE SplitFrom(_, _, _)
SplitFrom(str, i, word) ==
    IF i > Len(str) THEN (IF word = <<>> THEN <<>> ELSE <<word>>)
    ELSE IF str[i] = Blank
         THEN (IF word = <<>> THEN <<>> ELSE <<word>>) \o SplitFrom(str, i + 1, <<>>)
         ELSE SplitFrom(str, i + 1, Append(word, str[i]))
Split(str) == SplitFrom(str, 1, <<>>)

\* " ".join(words)
RECURSIVE JoinBlank(_)
JoinBlank(words) ==
    IF Len(words) = 0 THEN <<>>
    ELSE IF Len(words) = 1 THEN words[1]
    ELSE words[1] \o <<Blank>> \o JoinBlank(Tail(words))

IsPunctuation(c) == c \in Punctuation
LowerChar(c) == IF c = "B" THEN "b" ELSE c
Lower(str) == [i \in 1..Len(str) |-> LowerChar(str[i])]

\* str.strip()
RECURSIVE Strip(_)
Strip(str) ==
    IF Len(str) = 0 THEN str
    ELSE IF str[1] = Blank THEN Strip(Tail(str))
    ELSE IF str[Len(str)] = Blank THEN Strip(SubSeq(str, 1, Len(str) - 1))
    ELSE str

\* _preprocess: collapse whitespace, drop punctuation, lower-case, strip
Preprocess(str, cs) ==
    LET collapsed == JoinBlank(Split(str))
        bare == SelectSeq(collapsed, LAMBDA c : ~IsPunctuation(c))
        cased == IF cs THEN bare ELSE Lower(bare)
    IN Strip(cased)

One == [num |-> 1, den |-> 1]
Zero == [num |-> 0, den |-> 1]

ExactMatch(resp, exp) == IF resp = exp THEN One ELSE Zero

\* `expected in response`
IsSubstring(exp, resp) ==
    \E i \in 1..(Len(resp) + 1) :
        /\ i + Len(exp) - 1 <= Len(resp)
        /\ SubSeq(resp, i, i + Len(exp) - 1) = exp
ContainsMatch(resp, exp) == IF IsSubstring(exp, resp) THEN One ELSE Zero

WordSet(str) == {Split(str)[i] : i \in 1..Len(Split(str))}

PartialMatchRecall(resp, exp) ==
    LET response_words == WordSet(resp)
        expected_words == WordSet(exp)
    IN IF expected_words = {} THEN Zero
       ELSE [num |-> Cardinality(response_words \cap expected_words),
             den |-> Cardinality(expected_words)]

PartialMatch(resp, exp) ==
    LET response_words == WordSet(resp)
        expected_words == WordSet(exp)
    IN IF expected_words = {} THEN Zero
       ELSE [num |-> Cardinality(response_words \cap expected_words),
             den |-> Cardinality(response_words \cup expected_words)]

EvaluatorMethods == {"exact", "contains", "partial"}

\* evaluate(response, expected) of an AccuracyEvaluator(m, cs)
Evaluate(m, cs, resp_text, exp_text) ==
    LET resp == Preprocess(resp_text, cs)
        exp == Preprocess(exp_text, cs)
    IN CASE m = "exact" -> ExactMatch(resp, exp)
         [] m = "contains" -> ContainsMatch(resp, exp)
         [] OTHER -> PartialMatch(resp, exp)

NoScore == [num |-> 0, den |-> 0]     \* no evaluate() call made yet

EvalInit ==
    /\ eval_method \in EvaluatorMethods
    /\ case_sensitive \in BOOLEAN
    /\ eval_response \in Strings(MaxChars)
    /\ eval_expected \in Strings(MaxChars)
    /\ score = NoScore

EvalIdle ==
    /\ eval_method = "contains"
    /\ case_sensitive = FALSE
    /\ eval_response = <<>>
    /\ eval_expected = <<>>
    /\ score = NoScore

\* evaluate(response, expected), lines 63-75
EvaluateCall ==
    /\ score = NoScore
    /\ score' = Evaluate(eval_method, case_sensitive, eval_response, eval_expected)
    /\ UNCHANGED <<eval_method, case_sensitive, eval_response, eval_expected>>
    /\ UNCHANGED <<summVars, stratVars, runVars, queryVars, hookVars, libVars>>

-----------------------------------------------------------------------------
(* The query and evaluation hooks of the four experiments                  *)
(* _execute_queries collects one LLMResponse [text, success] per query;    *)
(* _evaluate_responses turns each into a row [accuracy, success].          *)

Experiments == {"NeedleInHaystack", "ContextSize", "RAGImpact", "ContextStrategies"}

\* what llm.query can return: a completion, or the terminal failure of
\* ollama_interface.py 157-165 (text = "")
LLMResponses ==
    {[text |-> t, success |-> TRUE] : t \in Strings(MaxAnswerChars)}
    \cup {[text |-> <<>>, success |-> FALSE]}

\* the row of one response: exp2 and exp3 score a failed response 0.0
\* without evaluating it; exp1 and exp4 evaluate response.text whatever
\* response.success is; exp4 turns the score into 1.0 / 0.0 by its truth
EvaluateRow(e, resp, expected) ==
    LET accuracy == Evaluate("contains", FALSE, resp.text, expected)
    IN CASE e \in {"ContextSize", "RAGImpact"} ->
              IF resp.success
              THEN [accuracy |-> accuracy, success |-> TRUE]
              ELSE [accuracy |-> Zero, success |-> FALSE]
         [] e = "NeedleInHaystack" ->
              [accuracy |-> accuracy, success |-> resp.success]
         [] OTHER ->
              [accuracy |-> IF accuracy.num # 0 THEN One ELSE Zero,
               success |-> resp.success]

HookInit ==
    /\ experiment \in Experiments
    /\ expected_answer \in Strings(MaxAnswerChars)
    /\ llm_responses = <<>>
    /\ hook_rows = <<>>
    /\ hpc = "querying"

HookIdle ==
    /\ experiment = "ContextSize"
    /\ expected_answer = <<>>
    /\ llm_responses = <<>>
    /\ hook_rows = <<>>
    /\ hpc = "idle"

\* one pass of the query loop of _execute_queries: the response of
\* llm.query, failed or not, is appended and the loop goes on
HookQuery ==
    /\ hpc = "querying"
    /\ \E resp \in LLMResponses :
          llm_responses' = Append(llm_responses, resp)
    /\ hpc' = IF Len(llm_responses) + 1 < NumQueries THEN "querying" ELSE "evaluating"
    /\ UNCHANGED <<experiment, expected_answer, hook_rows>>
    /\ UNCHANGED <<summVars, stratVars, runVars, queryVars, evalVars, libVars>>

\* _evaluate_responses: one row per response
HookEvaluate ==
    /\ hpc = "evaluating"
    /\ hook_rows' = [i \in 1..Len(llm_responses) |->
                  EvaluateRow(experiment, llm_responses[i], expected_answer)]
    /\ hpc' = "evaluated"
    /\ UNCHANGED <<experiment, expected_answer, llm_responses>>
    /\ UNCHANGED <<summVars, stratVars, runVars, queryVars, evalVars, libVars>>

-----------------------------------------------------------------------------
(* DocumentGenerator                                                       *)
(* A text is the sequence of its words (text.split()). self._rng is a      *)
(* pseudo-random generator: every draw is a function of its state and      *)
(* advances the state. A congruential generator stands for it.             *)

MinWordsPerDoc == 100   \* _validate_inputs: words_per_doc >= 100
FillerSlack == 10       \* _generate_filler_text: a sentence may overshoot by 10
StartCap == 20          \* _embed_fact, "start": min(20, len(words) // 4)
EndMargin == 20         \* _embed_fact, "end": max(len(words) - 20, ...)

Generators == {"gen1", "gen2"}
FactPositions == {"start", "middle", "end"}
\* what a generate_documents call left behind: nothing yet, the documents
\* it returned, or the ValueError of _validate_inputs
NotGenerated == [status |-> "not called", documents |-> <<>>]
Generated(documents) == [status |-> "returned", documents |-> documents]
ValueError == [status |-> "ValueError", documents |-> <<>>]

\* templates of _default_templates in which no placeholder touches a
\* punctuation mark; self.templates is the first NumTemplates of them
TemplateLibrary ==
    << <<"{subject}", "{verb}", "{object}", "for", "optimal", "performance",
         "and", "efficiency.">>,
       <<"According", "to", "industry", "standards,", "{subject}", "{verb}",
         "{object}", "to", "ensure", "quality.">>,
       <<"Research", "indicates", "that", "{subject}", "{verb}", "{object}",
         "in", "most", "scenarios.">>,
       <<"The", "implementation", "of", "{subject}", "{verb}", "{object}",
         "across", "all", "departments.">> >>

Templates == SubSeq(TemplateLibrary, 1, NumTemplates)

Subjects == << <<"The", "company">>, <<"The", "team">>, <<"The", "project">>,
               <<"The", "system">>, <<"The", "data">> >>
Verbs == << <<"requires">>, <<"needs">>, <<"provides">>, <<"supports">>,
            <<"manages">> >>
Objects == << <<"careful", "analysis">>, <<"detailed", "planning">>,
              <<"comprehensive", "testing">>, <<"thorough", "review">>,
              <<"systematic", "approach">> >>

\* the facts handed to generate_documents: two that share no word with the
\* filler vocabulary and one that is a phrase of it
Facts == {<<"X">>, <<"David", "Cohen.">>, <<"The", "company">>}

\* random.Random(seed) for a seed, random.Random() for None
RandomInitEntropy(seed, entropy) == entropy
RandomInit(seed, entropy) == IF seed = None_ THEN entropy ELSE seed

RandomNext(s) == (7 * s + 3) % 31

\* self._rng.choice(list) on a generator in state s
Choice(s, list) == list[(s % Len(list)) + 1]

RECURSIVE Replace(_, _, _, _)
Replace(template, subject, verb, object) ==
    IF Len(template) = 0 THEN <<>>
    ELSE (CASE Head(template) = "{subject}" -> subject
            [] Head(template) = "{verb}" -> verb
            [] Head(template) = "{object}" -> object
            [] OTHER -> <<Head(template)>>)
         \o Replace(Tail(template), subject, verb, object)

\* _fill_template: three draws, whether or not the template has the placeholder
FillTemplate(template, s) ==
    LET s1 == RandomNext(s)
        s2 == RandomNext(s1)
    IN [words |-> Replace(template, Choice(s, Subjects), Choice(s1, Verbs),
                          Choice(s2, Objects)),
        rng |-> RandomNext(s2)]

\* _generate_filler_text(target_words), from the words gathered so far
RECURSIVE FillerFrom(_, _, _)
FillerFrom(words, s, target_words) ==
    IF Len(words) >= target_words THEN [words |-> words, rng |-> s]
    ELSE LET template == Choice(s, Templates)
             filled == FillTemplate(template, RandomNext(s))
             remaining == target_words - Len(words)
         IN IF Len(words) + Len(filled.words) <= target_words + FillerSlack
            THEN FillerFrom(words \o filled.words, filled.rng, target_words)
            ELSE [words |-> words \o SubSeq(filled.words, 1, remaining),
                  rng |-> filled.rng]

GenerateFillerText(target_words, s) == FillerFrom(<<>>, s, target_words)

\* insert_idx of _embed_fact
InsertIdx(words, position) ==
    CASE position = "start" -> Min(StartCap, Len(words) \div 4)
      [] position = "middle" -> Len(words) \div 2
      [] position = "end" -> Max(Len(words) - EndMargin, (3 * Len(words)) \div 4)

\* _embed_fact: words.insert(insert_idx, fact), then " ".join(words)
EmbedFact(words, fact, position) ==
    SubSeq(words, 1, InsertIdx(words, position)) \o fact
    \o SubSeq(words, InsertIdx(words, position) + 1, Len(words))

ValidateInputs(num_docs, words_per_doc, fact, position) ==
    /\ num_docs > 0
    /\ words_per_doc >= MinWordsPerDoc
    /\ Len(fact) > 0
    /\ position \in FactPositions

\* the loop of generate_documents from document i on
RECURSIVE DocumentsFrom(_, _, _, _, _, _)
DocumentsFrom(i, num_docs, words_per_doc, fact, position, s) ==
    IF i >= num_docs THEN [documents |-> <<>>, rng |-> s]
    ELSE LET filler == GenerateFillerText(words_per_doc, s)
             rest == DocumentsFrom(i + 1, num_docs, words_per_doc, fact,
                                   position, filler.rng)
         IN [documents |->
                <<[content |-> EmbedFact(filler.words, fact, position),
                   fact |-> fact, fact_position |-> position, doc_id |-> i,
                   word_count |-> Len(filler.words) + Len(fact)]>>
                \o rest.documents,
             rng |-> rest.rng]

GenInit ==
    /\ gen_seed \in [Generators -> {None_} \cup (1..MaxSeed)]
    /\ gen_calls = [g \in Generators |-> 0]
    /\ gen_rng \in [Generators -> 0..Max(MaxSeed, NumEntropy - 1)]
    /\ \A g \in Generators :
          \E entropy \in 0..(NumEntropy - 1) :
              gen_rng[g] = RandomInit(gen_seed[g], entropy)
    /\ gen_num_docs \in 1..MaxGenDocs
    /\ gen_words_per_doc \in (MinWordsPerDoc - 1)..(MinWordsPerDoc + MaxExtraWords)
    /\ gen_fact \in Facts
    /\ gen_position \in FactPositions
    /\ gen_documents = [g \in Generators |-> NotGenerated]

GenIdle ==
    /\ gen_seed = [g \in Generators |-> None_]
    /\ gen_calls = [g \in Generators |-> 0]
    /\ gen_rng = [g \in Generators |-> 0]
    /\ gen_num_docs = 1
    /\ gen_words_per_doc = MinWordsPerDoc
    /\ gen_fact = <<"X">>
    /\ gen_position = "start"
    /\ gen_documents = [g \in Generators |-> NotGenerated]

\* generator g's generate_documents(num_docs, words_per_doc, fact, position)
GenerateDocuments(g) ==
    /\ gen_calls[g] < MaxGenCalls
    /\ gen_calls' = [gen_calls EXCEPT ![g] = @ + 1]
    /\ LET out == DocumentsFrom(0, gen_num_docs, gen_words_per_doc, gen_fact,
                                gen_position, gen_rng[g])
       IN IF ValidateInputs(gen_num_docs, gen_words_per_doc, gen_fact, gen_position)
          THEN /\ gen_documents' = [gen_documents EXCEPT ![g] = Generated(out.documents)]
               /\ gen_rng' = [gen_rng EXCEPT ![g] = out.rng]
          ELSE /\ gen_documents' = [gen_documents EXCEPT ![g] = ValueError]
               /\ UNCHANGED gen_rng
    /\ UNCHANGED <<gen_seed, gen_num_docs, gen_words_per_doc,
                   gen_fact, gen_position>>
    /\ UNCHANGED <<coreVars, storeVars, padVars, needleVars>>

-----------------------------------------------------------------------------
(* VectorStore on its own: add_documents, clear, count                     *)

StoreInit ==
    /\ vs_policy \in {"ignore", "raise"}
    /\ vs_collection = EmptyCollection
    /\ vs_added = 0
    /\ vs_calls = 0
    /\ vs_last = "created"

StoreIdle ==
    /\ vs_policy = "ignore"
    /\ vs_collection = EmptyCollection
    /\ vs_added = 0
    /\ vs_calls = 0
    /\ vs_last = "idle"

\* count(): self.collection.count()
Count(coll) == Cardinality(DOMAIN coll)

\* add_documents(documents) with n documents no earlier call has passed
StoreAddDocuments(n) ==
    /\ vs_calls < MaxStoreCalls
    /\ LET documents == [i \in 1..n |-> Document(vs_calls, i - 1, None_)]
           out == AddDocuments(vs_collection, documents, vs_policy)
       IN /\ vs_collection' = out.coll
          /\ vs_last' = IF out.raised THEN "raised" ELSE "added"
    /\ vs_added' = vs_added + n
    /\ vs_calls' = vs_calls + 1
    /\ UNCHANGED vs_policy
    /\ UNCHANGED <<coreVars, genVars, padVars, needleVars>>

\* clear(): delete_collection, then create_collection
StoreClear ==
    /\ vs_calls < MaxStoreCalls
    /\ vs_collection' = EmptyCollection
    /\ vs_added' = 0
    /\ vs_last' = "cleared"
    /\ vs_calls' = vs_calls + 1
    /\ UNCHANGED vs_policy
    /\ UNCHANGED <<coreVars, genVars, padVars, needleVars>>

\* clear() when the client raises: the error is logged, nothing changes
StoreClearFails ==
    /\ vs_calls < MaxStoreCalls
    /\ vs_last' = "clear failed"
    /\ vs_calls' = vs_calls + 1
    /\ UNCHANGED <<vs_policy, vs_collection, vs_added>>
    /\ UNCHANGED <<coreVars, genVars, padVars, needleVars>>

-----------------------------------------------------------------------------
(* Scratchpad on its own: write, read, clear and the history they keep     *)

EmptyStr == -1      \* the empty string as a stored value

\* `if value:` of read(): neither None nor the empty string
Truthy(value) == value \notin {None_, EmptyStr}

PadKeys == 1..MaxKeys
PadValues == {EmptyStr} \cup (1..MaxValues)

\* the scratchpad after read(key)
ScratchpadReadLogged(sp, key) ==
    LET value == ScratchpadRead(sp, key)
    IN IF Truthy(value)
       THEN [sp EXCEPT !.history =
               Append(@, [op |-> "READ", key |-> key, value |-> value, call |-> 0])]
       ELSE sp

\* the scratchpad after clear()
ScratchpadClear(sp) ==
    [memory |-> <<>>,
     history |-> Append(sp.history,
                        [op |-> "CLEAR", key |-> None_, value |-> None_, call |-> 0])]

NoOperation == [op |-> "none", key |-> None_, stored |-> FALSE, value |-> None_]

PadInit ==
    /\ pad = Scratchpad
    /\ pad_before = <<>>
    /\ pad_last = NoOperation
    /\ pad_calls = 0

PadIdle == PadInit

PadWrite(key, value) ==
    /\ pad_calls < MaxPadCalls
    /\ pad' = ScratchpadWrite(pad, key, value, 0)
    /\ pad_before' = pad.history
    /\ pad_last' = [op |-> "write", key |-> key, stored |-> HasKey(pad.memory, key),
                    value |-> None_]
    /\ pad_calls' = pad_calls + 1
    /\ UNCHANGED <<coreVars, genVars, storeVars, needleVars>>

PadRead(key) ==
    /\ pad_calls < MaxPadCalls
    /\ pad' = ScratchpadReadLogged(pad, key)
    /\ pad_before' = pad.history
    /\ pad_last' = [op |-> "read", key |-> key, stored |-> HasKey(pad.memory, key),
                    value |-> ScratchpadRead(pad, key)]
    /\ pad_calls' = pad_calls + 1
    /\ UNCHANGED <<coreVars, genVars, storeVars, needleVars>>

PadClear ==
    /\ pad_calls < MaxPadCalls
    /\ pad' = ScratchpadClear(pad)
    /\ pad_before' = pad.history
    /\ pad_last' = [op |-> "clear", key |-> None_, stored |-> FALSE, value |-> None_]
    /\ pad_calls' = pad_calls + 1
    /\ UNCHANGED <<coreVars, genVars, storeVars, needleVars>>

-----------------------------------------------------------------------------
(* NeedleInHaystackExperiment: construction and the sequential run()       *)

\* the class called as DocumentGenerator(seed=42, add_distractors=...): the
\* one of data_generation, whose __init__ takes (templates, fact_library,
\* seed) only, or a stand-in that takes the keyword, as a test double does
GeneratorClasses == {"DocumentGenerator", "stand-in"}

NoResults == [success |-> FALSE, statistics |-> {}, returned |-> FALSE]

NeedleInit ==
    /\ nh_generator \in GeneratorClasses
    /\ nh_num_documents \in 1..MaxNeedleDocs
    /\ nh_documents = <<>>
    /\ nh_pc = "new"
    /\ nh_ret = NoResults

NeedleIdle ==
    /\ nh_generator = "DocumentGenerator"
    /\ nh_num_documents = 1
    /\ nh_documents = <<>>
    /\ nh_pc = "idle"
    /\ nh_ret = NoResults

\* NeedleInHaystackExperiment(config, num_documents, ...)
NeedleConstruct ==
    /\ nh_pc = "new"
    /\ nh_pc' = IF nh_generator = "DocumentGenerator" THEN "TypeError"
                ELSE "constructed"
    /\ UNCHANGED <<nh_generator, nh_num_documents, nh_documents, nh_ret>>
    /\ UNCHANGED <<coreVars, genVars, storeVars, padVars>>

\* run(), step 1: _generate_data draws a position for every document
NeedleGenerateData ==
    /\ nh_pc = "constructed"
    /\ nh_documents' \in [1..nh_num_documents -> FactPositions]
    /\ nh_pc' = "generated"
    /\ UNCHANGED <<nh_generator, nh_num_documents, nh_ret>>
    /\ UNCHANGED <<coreVars, genVars, storeVars, padVars>>

\* analyze(): calculate_statistics raises ValueError on an empty list, so
\* there is an analysis only if every position has a row
NeedleAnalyze(rows) ==
    IF \A position \in FactPositions :
          \E i \in 1..Len(rows) : rows[i] = position
    THEN [raised |-> FALSE, analysis |-> FactPositions]
    ELSE [raised |-> TRUE, analysis |-> {}]

\* run(), steps 2 to 6 and the except clause: one row per document, then
\* analyze (config.iterations = 1, no plots, nothing saved)
NeedleFinishRun ==
    /\ nh_pc = "generated"
    /\ LET out == NeedleAnalyze(nh_documents)
       IN nh_ret' = [success |-> ~out.raised, statistics |-> out.analysis,
                     returned |-> TRUE]
    /\ nh_pc' = "returned"
    /\ UNCHANGED <<nh_generator, nh_num_documents, nh_documents>>
    /\ UNCHANGED <<coreVars, genVars, storeVars, padVars>>

LibIdle == GenIdle /\ StoreIdle /\ PadIdle /\ NeedleIdle

AuxIdle == QueryIdle /\ EvalIdle /\ HookIdle /\ LibIdle

CoreIdle == SummIdle /\ StratIdle /\ RunIdle /\ QueryIdle /\ EvalIdle /\ HookIdle

vars == <<summVars, stratVars, runVars, auxVars>>

InitSummarizer == SummInit /\ StratIdle /\ RunIdle /\ AuxIdle
NextSummarizer == \E t \in Texts, m \in Methods : SummarizeCall(t, m)
SpecSummarizer == InitSummarizer /\ [][NextSummarizer]_vars

InitStrategies == SummIdle /\ StratInit /\ RunIdle /\ AuxIdle
NextStrategies ==
    \/ BeginExecuteQueries
    \/ StepSelect
    \/ StepCompress
    \/ StepWrite
    \/ VectorStoreFails
SpecStrategies == InitStrategies /\ [][NextStrategies]_vars

InitRun == SummIdle /\ StratIdle /\ RunInit /\ AuxIdle
NextRun ==
    \/ Run
    \/ SeqGenerateData
    \/ SeqExecuteQueries
    \/ SeqEvaluateResponses
    \/ SeqAnalyze
    \/ SeqVisualize
    \/ SeqSaveResults
    \/ \E it \in 0..(config.iterations - 1) : RunSingleIteration(it)
    \/ Aggregate
    \/ ParAnalyze
    \/ ParVisualize
    \/ ParSaveResults
    \/ NewParallelExperiment
SpecRun == InitRun /\ [][NextRun]_vars

\* the same with run() called more than once on an instance
NextRepeat ==
    \/ NextRun
    \/ RunAgain
SpecRepeat == InitRun /\ [][NextRepeat]_vars

InitQuery == SummIdle /\ StratIdle /\ RunIdle /\ QueryInit /\ EvalIdle /\ HookIdle /\ LibIdle
NextQuery ==
    \/ Query
    \/ GenerateReturns
    \/ GenerateRaises
    \/ GenerateBlocks
SpecQuery == InitQuery /\ [][NextQuery]_vars

InitEvaluator == SummIdle /\ StratIdle /\ RunIdle /\ QueryIdle /\ EvalInit /\ HookIdle /\ LibIdle
NextEvaluator == EvaluateCall
SpecEvaluator == InitEvaluator /\ [][NextEvaluator]_vars

InitHooks == SummIdle /\ StratIdle /\ RunIdle /\ QueryIdle /\ EvalIdle /\ HookInit /\ LibIdle
NextHooks ==
    \/ HookQuery
    \/ HookEvaluate
SpecHooks == InitHooks /\ [][NextHooks]_vars

InitGenerator == CoreIdle /\ GenInit /\ StoreIdle /\ PadIdle /\ NeedleIdle
NextGenerator == \E g \in Generators : GenerateDocuments(g)
SpecGenerator == InitGenerator /\ [][NextGenerator]_vars

InitStore == CoreIdle /\ GenIdle /\ StoreInit /\ PadIdle /\ NeedleIdle
NextStore ==
    \/ \E n \in 0..MaxDocs : StoreAddDocuments(n)
    \/ StoreClear
    \/ StoreClearFails
SpecStore == InitStore /\ [][NextStore]_vars

InitPad == CoreIdle /\ GenIdle /\ StoreIdle /\ PadInit /\ NeedleIdle
NextPad ==
    \/ \E key \in PadKeys, value \in PadValues : PadWrite(key, value)
    \/ \E key \in PadKeys : PadRead(key)
    \/ PadClear
SpecPad == InitPad /\ [][NextPad]_vars

InitNeedle == CoreIdle /\ GenIdle /\ StoreIdle /\ PadIdle /\ NeedleInit
NextNeedle ==
    \/ NeedleConstruct
    \/ NeedleGenerateData
    \/ NeedleFinishRun
SpecNeedle == InitNeedle /\ [][NextNeedle]_vars

-----------------------------------------------------------------------------
(* Claims about the context strategies *)

StepsDone == 0..(step_idx - 1)  \* the steps whose three strategies all ran

\* C5: in WRITE, once a step has run, its scratchpad entry reads back the
\* fact written at that step (never None) for the rest of the iteration, and
\* the WRITE context built at a step lists the fact of every step so far.
C5_WriteKeepsFacts ==
    \A j \in StepsDone :
        /\ ScratchpadRead(scratchpad, FactKey(j)) = Fact(j)
        /\ ScratchpadRead(scratchpad, FactKey(j)) # None_
        /\ \E n \in 1..Len(context.WRITE.summary) :
              context.WRITE.summary[n] =
                  [line |-> "entry", key |-> FactKey(j), value |-> Fact(j)]

C5_Witness == spc = "returned" /\ step_idx >= 2 /\ iteration = 2

\* C7: in SELECT, once step i is answered its fact-bearing document is in
\* the index, which has grown by one document per executed step.
C7_StepDocumentIndexed ==
    spc \in {"COMPRESS", "WRITE"} =>
        /\ StepDocument(step_idx, Data) \in Range(vector_stores["SELECT"])
        /\ Cardinality(DOMAIN vector_stores["SELECT"]) = num_documents + step_idx + 1

\* C8: the SELECT context holds at most top_k documents, all of them
\* retrieved from the index, whatever the number of steps already run.
C8_SelectContextBounded ==
    /\ Cardinality(context.SELECT) <= top_k
    /\ "SELECT" \in DOMAIN vector_stores =>
          context.SELECT \subseteq Range(vector_stores["SELECT"])

C8_Witness ==
    /\ spc = "COMPRESS"
    /\ step_idx >= 1
    /\ num_documents > top_k
    /\ Cardinality(context.SELECT) = top_k

\* C9: every iteration starts WRITE with an empty Scratchpad and ends with
\* exactly num_steps entries, all written during that iteration.
C9_FreshScratchpad ==
    /\ (spc = "SELECT" /\ step_idx = 0) => scratchpad = Scratchpad
    /\ spc = "returned" =>
          /\ Len(scratchpad.memory) = num_steps
          /\ \A n \in 1..Len(scratchpad.history) :
                scratchpad.history[n].call = iteration
          /\ \A n \in 1..Len(scratchpad.memory) :
                \E h \in 1..Len(scratchpad.history) :
                    scratchpad.history[h] =
                        [op |-> "WRITE", key |-> scratchpad.memory[n].key,
                         value |-> scratchpad.memory[n].value, call |-> iteration]

C9_Witness == spc = "returned" /\ iteration = 2 /\ num_steps = 2

\* C10: at the first retrieval of an iteration the SELECT index and the
\* WRITE index hold exactly the corpus of that iteration.
C10_OwnIndex ==
    \A s \in {"SELECT", "WRITE"} :
        first_index[s].seen => first_index[s].docs = Range(Data)

\* C25: the text COMPRESS summarizes at step i contains the fact of every
\* step j <= i, before the word budget is applied.
C25_CompressSeesAllFacts ==
    spc = "WRITE" =>
        \A j \in 0..step_idx : [k |-> "fact", w |-> Fact(j)] \in Range(text)

\* C26: the list a call of _execute_queries was given is, at every point
\* of the call and after all its steps, the list _generate_data returned:
\* same length, every document as generated, no fact attached.
C26_DataReadOnly ==
    iteration >= 1 => data_arg = GenerateData(iteration, num_documents)

C26_Witness ==
    /\ spc = "returned"
    /\ num_steps = 2
    /\ responses.WRITE = 2
    /\ Len(data_arg) = num_documents
    /\ \A n \in 1..Len(data_arg) : data_arg[n].fact = None_

C25_CompressSeesStepFact ==
    spc = "WRITE" => [k |-> "fact", w |-> Fact(step_idx)] \in Range(text)

------------------------------------------------------------------------\* C14: a VectorStore call that fails inside _execute_queries is not raised
\* out of it: the call of _execute_queries goes on to its remaining
\* strategies and steps and returns.
C14_StoreFailureContained == spc # "raised"

-----
(* Claims about Summarizer.summarize *)

\* C6: for every text, method and max_words >= 1 the summary has at most
\* max_words words plus a constant number of ellipsis / separator tokens
\* (two: the "[...]" on both sides of a middle slice), whatever the length
\* of the text.
C6_SummaryBounded == Len(summary) <= max_words + 2

-----------------------------------------------------------------------------
(* Claims about BaseExperiment.run *)

Occurrences(rows, r) == Cardinality({n \in 1..Len(rows) : rows[n] = r})

Iterations == 0..(config.iterations - 1)

\* C1: a run with use_multiprocessing off and iterations = N passes N times
\* through the three hooks, so raw_results holds N times the rows of one pass.
C1_SequentialRowsTimesN ==
    (pc = "returned" /\ ret.success /\ ~config.use_multiprocessing) =>
        Len(ret.raw_results) = config.iterations * RowsPerIteration(kind)

\* C2: in a parallel run an iteration that raises contributes no rows and
\* does not abort the run: unless analyze, visualize or the save step fails,
\* run() returns success = true and raw_results holds exactly the rows of
\* the iterations that did not raise.
C2_FailedIterationsIsolated ==
    (/\ Parallel
     /\ pc \in {"returned", "propagated"}
     /\ raised = "none"
     /\ \E it \in Iterations : done[it + 1].status = "raised") =>
        /\ pc = "returned"
        /\ ret.success
        /\ \A it \in Iterations :
             \A q \in 1..RowsPerIteration(kind) :
                Occurrences(ret.raw_results, [it |-> it, q |-> q]) =
                    IF done[it + 1].status = "ok" THEN 1 ELSE 0

\* C3: in the sequential path an exception of any stage is caught by run(),
\* which returns success = false with the error, empty statistics and no
\* visualization paths; nothing propagates to the caller.
C3_SequentialFailureCaptured ==
    ~Parallel =>
        /\ pc # "propagated"
        /\ raised # "none" =>
              /\ pc = "returned"
              /\ ~ret.success
              /\ ret.error = raised
              /\ ret.statistics = {}
              /\ ret.visualization_paths = {}

C3_Witness ==
    /\ ~Parallel
    /\ pc = "returned"
    /\ raised = "analyze"
    /\ Len(ret.raw_results) > 0

\* C4: for the same experiment and N >= 2 iterations, none of which fails,
\* the parallel run returns as many rows as the sequential run.
C4_SameRowCount ==
    (/\ Parallel
     /\ reference # None_
     /\ pc = "returned"
     /\ \A it \in Iterations : done[it + 1].status = "ok") =>
        Len(ret.raw_results) = reference

Aggregated == pc \in {"par_analyze", "par_visualize", "par_save"}
                 \/ (Parallel /\ pc \in {"returned", "propagated"})

\* the rows iterations 0 .. n-1 produced, iteration after iteration
RECURSIVE RowsProduced(_)
RowsProduced(n) ==
    IF n = 0 THEN <<>>
    ELSE RowsProduced(n - 1)
         \o (IF done[n].status = "ok" THEN NewRows(kind, n - 1) ELSE <<>>)

\* C21: in a parallel run the aggregated raw_results is the flat
\* concatenation of the per-iteration row lists, and its content is the same
\* for every order in which the workers complete their iterations.
C21_FlatConcatenation ==
    Aggregated => results = RowsProduced(config.iterations)

\* C21 for the experiments whose _evaluate_responses builds a new list
C21_FlatConcatenationNewList ==
    (Aggregated /\ kind # "ContextSize") =>
        results = RowsProduced(config.iterations)

\* C24: each parallel iteration returns only the rows produced by that
\* iteration: what _run_single_iteration hands back for iteration k never
\* contains rows of another iteration, even when one worker-side copy of
\* the experiment executes several iterations one after another.
C24_OnlyOwnRows ==
    (pc = "pool" /\ earlier = <<>>) =>
        \A it \in Iterations :
            done[it + 1].status = "ok" /\
            (\A n \in 1..Len(done) :
                ChunkOf(n - 1) = ChunkOf(it) => done[n].status # "pending")
            => IterationResult(it) = NewRows(kind, it)

\* the rows the run() call under way has produced
OwnRowCount ==
    IF Parallel THEN Len(RowsProduced(config.iterations))
    ELSE RowsPerIteration(kind)

\* C30: run() is repeatable on one experiment instance: a second call
\* returns raw_results holding only the rows the second call produced (as
\* many as that call's iterations yield), never rows left from the first.
C30_SecondRunOnlyOwnRows ==
    (Len(earlier) > 0 /\ pc = "returned" /\ ret.success) =>
        Len(ret.raw_results) = OwnRowCount

\* C30 for the experiments whose _evaluate_responses builds a new list
C30_SecondRunNewList ==
    (Len(earlier) > 0 /\ pc = "returned" /\ ret.success /\ kind # "ContextSize") =>
        Len(ret.raw_results) = OwnRowCount

\* C22: a failure in any stage ends the run in FAILED in both execution
\* paths: when analyze, visualize or the save step raises, run() returns
\* success = false with the error, whether the rows were collected
\* sequentially or by parallel workers; no exception escapes run().
C22_FailureCaptured ==
    /\ pc # "propagated"
    /\ raised \in {"analyze", "visualize", "save"} =>
          /\ pc = "returned"
          /\ ~ret.success
          /\ ret.error = raised

\* C27: in a parallel run the generator that draws the data of iteration
\* `it` is seeded with `it`.
C27_SeededByIndex ==
    \A n \in 1..Len(done) :
        done[n].status = "ok" => done[n].seeding = Seeding("iteration", n - 1, 0)

\* iterations with different indices draw their data from differently
\* seeded generators, or from different points of one generator's stream
C27_DifferentIndicesDiffer ==
    \A m, n \in 1..Len(done) :
        (m # n /\ done[m].status = "ok" /\ done[n].status = "ok") =>
            done[m].seeding # done[n].seeding

\* no iteration's seeding is left to the operating system
C27_NoEntropy ==
    \A n \in 1..Len(done) : done[n].seeding.source # "entropy"

StageRank(name) ==
    CASE name = "generate" -> 1 [] name = "query" -> 2 [] name = "evaluate" -> 3
      [] name = "analyze" -> 4 [] name = "visualize" -> 5 [] name = "save" -> 6

Entered(name) == {n \in 1..Len(stages) : stages[n].stage = name}

\* C23: within one run the stages occur in the fixed order generate, query,
\* evaluate, analyze, visualize, persist and none is re-entered: analyze()
\* executes exactly once per run, before visualize(), which completes before
\* the JSON artifact is written; visualize and persist are skipped, not
\* reordered, when generate_visualizations / save_results are false.
C23_StagesOnceInOrder ==
    /\ \A m, n \in 1..Len(stages) :
          m < n => StageRank(stages[m].stage) < StageRank(stages[n].stage)
    /\ (pc = "returned" /\ ret.success) =>
          /\ Cardinality(Entered("analyze")) = 1
          /\ Cardinality(Entered("visualize")) =
                (IF config.generate_visualizations THEN 1 ELSE 0)
          /\ Cardinality(Entered("save")) = (IF config.save_results THEN 1 ELSE 0)

\* C23 for the stages run() enters itself, the analyze() call that
\* visualize() makes left aside
C23_OrderOfRun ==
    \A m, n \in 1..Len(stages) :
        (m < n /\ stages[m].within = "run" /\ stages[n].within = "run") =>
            StageRank(stages[m].stage) < StageRank(stages[n].stage)

-----------------------------------------------------------------------------
(* Claims about OllamaInterface.query *)

C12_CallBoundedByTimeout == qpc = "generating" => waited <= timeout

-----------------------------------------------------------------------------
(* Claims about AccuracyEvaluator *)

ResponseWords == WordSet(Preprocess(eval_response, case_sensitive))
ExpectedWords == WordSet(Preprocess(eval_expected, case_sensitive))

\* C17 (as stated): with method partial the score is |R n E| / |R u E| over
\* the normalized word sets, lies in [0, 1], is 1.0 exactly when the two sets
\* are equal, and is 0.0 exactly when they are disjoint or E is empty.
C17_JaccardAsStated ==
    (eval_method = "partial" /\ score # NoScore) =>
        /\ 0 <= score.num /\ score.num <= score.den /\ score.den > 0
        /\ (score.num = score.den) <=> (ResponseWords = ExpectedWords)
        /\ (score.num = 0) <=>
              (ResponseWords \cap ExpectedWords = {} \/ ExpectedWords = {})

\* C17 (amended): as above, but the score is 1.0 exactly when the two sets
\* are equal and not empty; when E is empty the score is 0.0 even if R is
\* empty too, and otherwise it is |R n E| / |R u E|.
C17_Jaccard ==
    (eval_method = "partial" /\ score # NoScore) =>
        /\ 0 <= score.num /\ score.num <= score.den /\ score.den > 0
        /\ ExpectedWords # {} =>
              /\ score.num = Cardinality(ResponseWords \cap ExpectedWords)
              /\ score.den = Cardinality(ResponseWords \cup ExpectedWords)
        /\ (score.num = score.den) <=>
              (ResponseWords = ExpectedWords /\ ExpectedWords # {})
        /\ (score.num = 0) <=>
              (ResponseWords \cap ExpectedWords = {} \/ ExpectedWords = {})

C17_Witness ==
    /\ eval_method = "partial"
    /\ score.num = 1
    /\ score.den = 2

-----------------------------------------------------------------------------
(* Claims about the query and evaluation hooks *)

\* C13: in each of the four experiments and for every expected answer, a
\* query that ends in terminal failure does not stop the iteration (every
\* query gets its row) and its row has accuracy 0.0 and success = false.
C13_FailedQueryScoresZero ==
    hpc = "evaluated" =>
        /\ Len(hook_rows) = NumQueries
        /\ \A i \in 1..Len(hook_rows) :
              ~llm_responses[i].success =>
                  /\ hook_rows[i].accuracy = Zero
                  /\ ~hook_rows[i].success

-----------------------------------------------------------------------------
(* Claims about DocumentGenerator *)

IsGenerated(g) == gen_documents[g].status = "returned"

\* the word indexes (from 0) at which fact starts in content
FactOccurrences(content, fact) ==
    {i \in 0..(Len(content) - Len(fact)) :
        SubSeq(content, i + 1, i + Len(fact)) = fact}

\* the index the fact is documented to have, W being the filler's word count
DocumentedIdx(W, position) ==
    CASE position = "start" -> Min(20, W \div 4)
      [] position = "middle" -> W \div 2
      [] position = "end" -> Max(W - 20, (3 * W) \div 4)

\* C15: for every valid input each generated document contains the fact
\* exactly once, as one contiguous word sequence at word index min(20, W/4)
\* for start, W/2 for middle and max(W-20, 3W/4) for end, W being the word
\* count of the filler text.
C15_FactExactlyOnce ==
    \A g \in Generators :
        IsGenerated(g) =>
            \A n \in 1..Len(gen_documents[g].documents) :
                LET doc == gen_documents[g].documents[n]
                IN FactOccurrences(doc.content, gen_fact) =
                      {DocumentedIdx(Len(doc.content) - Len(gen_fact), gen_position)}

\* C28: for every words_per_doc >= 100 and every fact, the word count of
\* each generated document (filler plus fact, the word_count of its
\* metadata) differs from words_per_doc by less than 10% of words_per_doc.
C28_WordCountWithinTenPercent ==
    \A g \in Generators :
        IsGenerated(g) =>
            \A n \in 1..Len(gen_documents[g].documents) :
                LET wc == gen_documents[g].documents[n].word_count
                    off == IF wc >= gen_words_per_doc THEN wc - gen_words_per_doc
                           ELSE gen_words_per_doc - wc
                IN 10 * off < gen_words_per_doc

\* what the loop of _generate_filler_text does bound: the document has at
\* least words_per_doc and at most words_per_doc + 10 words besides the fact
C28_FillerWithinSlack ==
    \A g \in Generators :
        IsGenerated(g) =>
            \A n \in 1..Len(gen_documents[g].documents) :
                LET W == gen_documents[g].documents[n].word_count - Len(gen_fact)
                IN /\ W >= gen_words_per_doc
                   /\ W <= gen_words_per_doc + FillerSlack

\* the part of C15 that is about where the fact is put
C15_FactAtDocumentedIdx ==
    \A g \in Generators :
        IsGenerated(g) =>
            \A n \in 1..Len(gen_documents[g].documents) :
                LET doc == gen_documents[g].documents[n]
                IN DocumentedIdx(Len(doc.content) - Len(gen_fact), gen_position)
                      \in FactOccurrences(doc.content, gen_fact)

C16_SeedsDiffer ==
    (/\ IsGenerated("gen1") /\ IsGenerated("gen2")
     /\ gen_calls["gen1"] = gen_calls["gen2"]) =>
        gen_documents["gen1"] = gen_documents["gen2"]

C16_CallsDiffer ==
    (/\ IsGenerated("gen1") /\ IsGenerated("gen2")
     /\ gen_seed["gen1"] # None_
     /\ gen_seed["gen1"] = gen_seed["gen2"]) =>
        gen_documents["gen1"] = gen_documents["gen2"]

-----------------------------------------------------------------------------
(* Claims about VectorStore *)

\* C18: count() equals the total number of documents passed to all
\* add_documents calls since the store was created or last cleared (adding 1
\* document and then 2 documents gives count 3), and clear() resets it to 0.
C18_CountIsTotalAdded ==
    vs_last \in {"created", "added", "raised", "cleared"} =>
        Count(vs_collection) = vs_added

\* the part of C18 that is about clear()
C18_ClearResets == vs_last = "cleared" => Count(vs_collection) = 0

-----------------------------------------------------------------------------
(* Claims about Scratchpad *)

IsPrefix(p, q) == Len(p) <= Len(q) /\ SubSeq(q, 1, Len(p)) = p

\* C20: history is an append-only log that records every operation: each
\* write, each read of a stored key (whatever its value) and each clear
\* appends exactly one entry, and no operation removes or rewrites an
\* earlier entry (clear empties memory but not history).
C20_HistoryRecordsEveryOperation ==
    /\ IsPrefix(pad_before, pad.history)
    /\ (\/ pad_last.op \in {"write", "clear"}
        \/ pad_last.op = "read" /\ pad_last.stored) =>
            Len(pad.history) = Len(pad_before) + 1
    /\ pad_last.op = "clear" => pad.memory = <<>>

\* the part of C20 that is about earlier entries: they stay as they are
C20_AppendOnly ==
    /\ IsPrefix(pad_before, pad.history)
    /\ Len(pad.history) <= Len(pad_before) + 1
    /\ pad_last.op \in {"write", "clear"} => Len(pad.history) = Len(pad_before) + 1
    /\ (pad_last.op = "read" /\ Truthy(pad_last.value)) =>
            Len(pad.history) = Len(pad_before) + 1

-----------------------------------------------------------------------------
(* Claims about NeedleInHaystackExperiment *)

\* C19: for every random assignment of fact positions to the generated
\* documents (including those in which some position receives no document)
\* run() returns success = true and its analysis has an entry for each of
\* start, middle and end.
C19_RunSucceeds ==
    nh_pc = "returned" =>
        /\ nh_ret.success
        /\ nh_ret.statistics = {"start", "middle", "end"}

\* the experiment can be constructed to begin with
C19_Constructible == nh_pc # "TypeError"

====
